---- MODULE Spec2Model ----
(***************************************************************************)
(* Model of two Trusty components of android_system_core:                  *)
(*                                                                         *)
(*  - trusty/keymint/src/keymint_hal_main.rs: the KeyMint HAL service.     *)
(*    main() connects one TipcChannel to the trusted application (TA),     *)
(*    wraps it in Arc<Mutex<..>>, registers four binder services that      *)
(*    share it and sends the HAL info.  TipcChannel::execute sends one     *)
(*    request and reassembles a fragmented response.                       *)
(*    Specification: Spec.                                                 *)
(*                                                                         *)
(*  - trusty/hwcryptolib/src/{hwcrypto_symmetric_operations,               *)
(*    symmetric_dma_emitting_operation}.rs: the symmetric operation        *)
(*    factory (begin, begin_aead, begin_dma, begin_dma_aead) and the DMA   *)
(*    emitting operation handle.                                           *)
(*    Specification: SpecHw.                                               *)
(***************************************************************************)
EXTENDS Integers, Sequences, FiniteSets, TLC

\* ------------------------------------------------------------------ bounds

\* Number of execute calls the four facades may start in one run.
MaxCalls == 2
\* Largest number of fragments the TA splits one response into.
MaxFrags == 2

\* ------------------------------------------------------------- state (HAL)

VARIABLES
    mainPc,            \* position of main()
    connected,         \* trusty::TipcChannel::connect succeeded
    registered,        \* services added with binder::add_service
    connId,            \* connections made so far: the id of the newest one
    chanRef,           \* per caller: the connection its Arc clone points to
    mutex,             \* owner of the Mutex around the TipcChannel
    pc,                \* per caller: position in lock / execute / unlock
    chan,              \* frames the TA has queued on the tipc channel
    full_rsp,          \* execute: local full_rsp
    expect_more_msgs,  \* execute: local expect_more_msgs
    result,            \* value execute has returned to the caller
    nCalls,            \* facade calls started so far
    g_id,              \* history: id of the caller's current call
    g_resp,            \* history: fragments' payloads the TA answered with
    g_srcs,            \* history: call ids of the frames the call consumed
    g_nRecv,           \* history: recv calls the call has made
    g_failed,          \* history: a send or recv of the call failed
    g_cleanRun,        \* history: no transport failure up to the return
    g_anyFail          \* history: some send or recv failed on the channel

halVars == <<mainPc, connected, registered, connId, chanRef, mutex, pc, chan, full_rsp,
             expect_more_msgs, result, nCalls, g_id, g_resp, g_srcs, g_nRecv,
             g_failed, g_cleanRun, g_anyFail>>

\* The four service facades, in registration order, and the HAL-info sender.
Facades == <<"km", "rpc", "sclock", "ssecret">>
FacadeSet == {Facades[i] : i \in 1..Len(Facades)}
Callers == FacadeSet \cup {"main"}
NoOne == "none"

\* Payloads a response fragment may carry.
Payloads == {<<7>>, <<8, 9>>}

RECURSIVE Concat(_)
Concat(ss) == IF ss = <<>> THEN <<>> ELSE Head(ss) \o Concat(Tail(ss))

\* binder::Result<Vec<u8>> values.
NoResult == [kind |-> "none", code |-> "", rsp |-> <<>>]
Ok(bytes) == [kind |-> "Ok", code |-> "", rsp |-> bytes]
Err(c) == [kind |-> "Err", code |-> c, rsp |-> <<>>]

\* One frame on the wire: the continuation indicator, then the payload.
EncodeFrame(more, payload) == <<IF more THEN 1 ELSE 0>> \o payload

\* (expect_more_msgs, current_rsp_content) of a received buffer.
handle_resp_received(recv_buf) == <<Head(recv_buf) = 1, Tail(recv_buf)>>

\* Frames the TA queues in answer to call id for the fragments frags.
TaFrames(id, frags) ==
    [i \in 1..Len(frags) |->
        [buf |-> EncodeFrame(i < Len(frags), frags[i]), of |-> id]]

\* All responses the TA may produce: 1..MaxFrags fragments.
Responses == UNION {[1..n -> Payloads] : n \in 1..MaxFrags}

\* The process runs until main() panics.
Alive == mainPc # "panicked"

\* ------------------------------------------------------- state (hwcrypto)

VARIABLES
    hwAlive,           \* the hwcrypto service process is running
    panicAborts,       \* the build's panic strategy: abort (or unwind)
    sessions,          \* sessions the non-DMA begin variants have created
    hwPc,              \* per binder thread: "idle" or "called"
    hwOp,              \* per binder thread: the operation it was called with
    hwValid,           \* per binder thread: the arguments are well-formed
    hwRet,             \* per binder thread: how its last call ended
    nHwCalls,          \* calls made so far
    g_terminated,      \* history: finish or abort ran on the DMA handle
    g_afterTerminal,   \* history: the call was made after finish or abort
    g_abortDuring      \* history: another caller's abort ran while pending

hwVars == <<hwAlive, panicAborts, sessions, hwPc, hwOp, hwValid, hwRet,
            nHwCalls, g_terminated, g_afterTerminal, g_abortDuring>>

vars == <<halVars, hwVars>>

\* ------------------------------------------------------------ HAL: main()

HalInit ==
    /\ mainPc = "start"
    /\ connected = FALSE
    /\ registered = {}
    /\ connId = 0
    /\ chanRef = [c \in Callers |-> 0]
    /\ mutex = NoOne
    /\ pc = [c \in Callers |-> "idle"]
    /\ chan = <<>>
    /\ full_rsp = [c \in Callers |-> <<>>]
    /\ expect_more_msgs = [c \in Callers |-> FALSE]
    /\ result = [c \in Callers |-> NoResult]
    /\ nCalls = 0
    /\ g_id = [c \in Callers |-> 0]
    /\ g_resp = [c \in Callers |-> <<>>]
    /\ g_srcs = [c \in Callers |-> {}]
    /\ g_nRecv = [c \in Callers |-> 0]
    /\ g_failed = [c \in Callers |-> FALSE]
    /\ g_cleanRun = [c \in Callers |-> FALSE]
    /\ g_anyFail = FALSE

execVars == <<pc, chan, full_rsp, expect_more_msgs, result, nCalls, g_id,
              g_resp, g_srcs, g_nRecv, g_failed, g_cleanRun, g_anyFail>>

\* A panic in main() ends the process: its threads, their locals, the mutex
\* and the connection are gone.
ProcessExit ==
    /\ mutex' = NoOne
    /\ pc' = [c \in Callers |-> "idle"]
    /\ chan' = <<>>
    /\ full_rsp' = [c \in Callers |-> <<>>]
    /\ expect_more_msgs' = [c \in Callers |-> FALSE]
    /\ result' = [c \in Callers |-> NoResult]
    /\ g_id' = [c \in Callers |-> 0]
    /\ g_resp' = [c \in Callers |-> <<>>]
    /\ g_srcs' = [c \in Callers |-> {}]
    /\ g_nRecv' = [c \in Callers |-> 0]
    /\ g_failed' = [c \in Callers |-> FALSE]
    /\ g_cleanRun' = [c \in Callers |-> FALSE]
    /\ UNCHANGED <<nCalls, g_anyFail>>

\* A startup that goes straight on to register the services.
StartThreadPoolSkipConnect ==
    /\ mainPc = "start"
    /\ mainPc' = "register"
    /\ UNCHANGED <<connected, registered, connId, chanRef, mutex, execVars>>
    /\ UNCHANGED hwVars

\* binder::ProcessState::start_thread_pool()
StartThreadPool ==
    /\ mainPc = "start"
    /\ mainPc' = "connect"
    /\ UNCHANGED <<connected, registered, connId, chanRef, mutex, execVars>>
    /\ UNCHANGED hwVars

\* trusty::TipcChannel::connect(..) succeeded; Arc::new(Mutex::new(..)):
\* main() holds the one reference to the new connection.
ConnectOk ==
    /\ mainPc = "connect"
    /\ connected' = TRUE
    /\ connId' = connId + 1
    /\ chanRef' = [chanRef EXCEPT !["main"] = connId + 1]
    /\ mainPc' = "register"
    /\ UNCHANGED <<registered, mutex, execVars>>
    /\ UNCHANGED hwVars

\* A failed connect that is only logged: main() goes on to register.
ConnectFailContinue ==
    /\ mainPc = "connect"
    /\ mainPc' = "register"
    /\ UNCHANGED <<connected, registered, connId, chanRef, mutex, execVars>>
    /\ UNCHANGED hwVars

\* trusty::TipcChannel::connect(..) failed: unwrap_or_else(|e| panic!(..))
ConnectFail ==
    /\ mainPc = "connect"
    /\ mainPc' = "panicked"
    /\ ProcessExit
    /\ UNCHANGED <<connected, registered, connId, chanRef>>
    /\ UNCHANGED hwVars

\* The next service to register, in the order of main().
NextService == Facades[Cardinality(registered) + 1]

\* A registration that connects a channel of its own for the new service.
RegisterOkOwnChannel ==
    /\ mainPc = "register"
    /\ registered' = registered \cup {NextService}
    /\ connId' = connId + 1
    /\ chanRef' = [chanRef EXCEPT ![NextService] = connId + 1]
    /\ mainPc' = IF Cardinality(registered') = Len(Facades)
                 THEN "hal_info" ELSE "register"
    /\ UNCHANGED <<connected, mutex, execVars>>
    /\ UNCHANGED hwVars

\* new_as_binder(tipc_channel.clone()); binder::add_service(..) succeeded:
\* the service holds a clone of main()'s reference.
RegisterOk ==
    /\ mainPc = "register"
    /\ registered' = registered \cup {NextService}
    /\ chanRef' = [chanRef EXCEPT ![NextService] = chanRef["main"]]
    /\ mainPc' = IF Cardinality(registered') = Len(Facades)
                 THEN "hal_info" ELSE "register"
    /\ UNCHANGED <<connected, connId, mutex, execVars>>
    /\ UNCHANGED hwVars

\* binder::add_service(..) failed: unwrap_or_else(|e| panic!(..))
RegisterFail ==
    /\ mainPc = "register"
    /\ mainPc' = "panicked"
    /\ ProcessExit
    /\ UNCHANGED <<connected, registered, connId, chanRef>>
    /\ UNCHANGED hwVars

\* ----------------------------------------------- HAL: callers and the lock

mainVars == <<mainPc, connected, registered, connId, chanRef>>

\* A lock that lets every caller in.
MutexFreeBroken(c) == TRUE

\* Mutex::lock succeeds only while no one holds the mutex.
MutexFree(c) == mutex = NoOne

\* A binder thread of the pool serves a call for a registered facade: it
\* blocks in tipc_channel.lock() until the mutex is free, then owns the
\* channel and enters execute.
FacadeCall(c) ==
    /\ Alive
    /\ c \in registered
    /\ pc[c] = "idle"
    /\ nCalls < MaxCalls
    /\ MutexFree(c)
    /\ mutex' = c
    /\ nCalls' = nCalls + 1
    /\ pc' = [pc EXCEPT ![c] = "send"]
    /\ g_id' = [g_id EXCEPT ![c] = nCalls + 1]
    /\ UNCHANGED <<mainVars, chan, full_rsp, expect_more_msgs, result, g_resp,
                   g_srcs, g_nRecv, g_failed, g_cleanRun, g_anyFail>>
    /\ UNCHANGED hwVars

\* A HAL-info exchange that uses the channel without waiting for the mutex.
HalInfoCallNoLock ==
    /\ mainPc = "hal_info"
    /\ pc["main"] = "idle"
    /\ mutex' = "main"
    /\ mainPc' = "hal_info_sent"
    /\ pc' = [pc EXCEPT !["main"] = "send"]
    /\ UNCHANGED <<connected, registered, connId, chanRef, chan, full_rsp,
                   expect_more_msgs, result, nCalls, g_id, g_resp, g_srcs, g_nRecv,
                   g_failed, g_cleanRun, g_anyFail>>
    /\ UNCHANGED hwVars

\* main(): send_hal_info(tipc_channel.lock().unwrap().deref_mut()) blocks
\* until the mutex is free, then owns the channel and enters execute.
HalInfoCall ==
    /\ mainPc = "hal_info"
    /\ pc["main"] = "idle"
    /\ MutexFree("main")
    /\ mutex' = "main"
    /\ mainPc' = "hal_info_sent"
    /\ pc' = [pc EXCEPT !["main"] = "send"]
    /\ UNCHANGED <<connected, registered, connId, chanRef, chan, full_rsp,
                   expect_more_msgs, result, nCalls, g_id, g_resp, g_srcs, g_nRecv,
                   g_failed, g_cleanRun, g_anyFail>>
    /\ UNCHANGED hwVars

\* A guard that is dropped only when execute returned a response.
UnlockOnlyOnOk(c) ==
    /\ Alive
    /\ pc[c] = "unlock"
    /\ mutex' = IF mutex = c /\ result[c].kind = "Ok" THEN NoOne ELSE mutex
    /\ pc' = [pc EXCEPT ![c] = "idle"]
    /\ mainPc' = IF c = "main" THEN "join" ELSE mainPc
    /\ result' = [result EXCEPT ![c] = NoResult]
    /\ full_rsp' = [full_rsp EXCEPT ![c] = <<>>]
    /\ expect_more_msgs' = [expect_more_msgs EXCEPT ![c] = FALSE]
    /\ g_id' = [g_id EXCEPT ![c] = 0]
    /\ g_resp' = [g_resp EXCEPT ![c] = <<>>]
    /\ g_srcs' = [g_srcs EXCEPT ![c] = {}]
    /\ g_nRecv' = [g_nRecv EXCEPT ![c] = 0]
    /\ g_failed' = [g_failed EXCEPT ![c] = FALSE]
    /\ g_cleanRun' = [g_cleanRun EXCEPT ![c] = FALSE]
    /\ UNCHANGED <<connected, registered, connId, chanRef, chan, nCalls,
                   g_anyFail>>
    /\ UNCHANGED hwVars

\* The MutexGuard is dropped when the statement that called execute ends:
\* the caller has consumed the result and the call's locals are gone.
Unlock(c) ==
    /\ Alive
    /\ pc[c] = "unlock"
    /\ mutex' = IF mutex = c THEN NoOne ELSE mutex
    /\ pc' = [pc EXCEPT ![c] = "idle"]
    /\ mainPc' = IF c = "main" THEN "join" ELSE mainPc
    /\ result' = [result EXCEPT ![c] = NoResult]
    /\ full_rsp' = [full_rsp EXCEPT ![c] = <<>>]
    /\ expect_more_msgs' = [expect_more_msgs EXCEPT ![c] = FALSE]
    /\ g_id' = [g_id EXCEPT ![c] = 0]
    /\ g_resp' = [g_resp EXCEPT ![c] = <<>>]
    /\ g_srcs' = [g_srcs EXCEPT ![c] = {}]
    /\ g_nRecv' = [g_nRecv EXCEPT ![c] = 0]
    /\ g_failed' = [g_failed EXCEPT ![c] = FALSE]
    /\ g_cleanRun' = [g_cleanRun EXCEPT ![c] = FALSE]
    /\ UNCHANGED <<connected, registered, connId, chanRef, chan, nCalls,
                   g_anyFail>>
    /\ UNCHANGED hwVars

\* ----------------------------------------------- HAL: TipcChannel::execute

\* self.0.send(serialized_req) succeeded.  The TA answers the request with
\* one response, split into fragments; the locals are initialised.
ExecSendOk(c) ==
    /\ Alive
    /\ pc[c] = "send"
    /\ \E frags \in Responses :
          /\ chan' = chan \o TaFrames(g_id[c], frags)
          /\ g_resp' = [g_resp EXCEPT ![c] = frags]
    /\ expect_more_msgs' = [expect_more_msgs EXCEPT ![c] = TRUE]
    /\ full_rsp' = [full_rsp EXCEPT ![c] = <<>>]
    /\ pc' = [pc EXCEPT ![c] = "recv"]
    /\ UNCHANGED <<mainVars, mutex, result, nCalls, g_id, g_srcs, g_nRecv, g_failed,
                   g_cleanRun, g_anyFail>>
    /\ UNCHANGED hwVars

\* What execute returns when send fails: map_err(..)?
SendFailResult(c) == Err("TRANSACTION_FAILED")

\* self.0.send(serialized_req) failed: execute returns at once.
ExecSendFail(c) ==
    /\ Alive
    /\ pc[c] = "send"
    /\ result' = [result EXCEPT ![c] = SendFailResult(c)]
    /\ pc' = [pc EXCEPT ![c] = "unlock"]
    /\ g_failed' = [g_failed EXCEPT ![c] = TRUE]
    /\ g_anyFail' = TRUE
    /\ UNCHANGED <<mainVars, mutex, chan, full_rsp, expect_more_msgs, nCalls,
                   g_id, g_resp, g_srcs, g_nRecv, g_cleanRun>>
    /\ UNCHANGED hwVars

\* A reassembly that puts the newest fragment first.
ExtendFront(rsp, content) == content \o rsp

\* full_rsp.extend_from_slice(&current_rsp_content)
Extend(rsp, content) == rsp \o content

\* A receive that returns after the first frame whatever its indicator says.
ExecRecvOnce(c) ==
    /\ Alive
    /\ pc[c] = "recv"
    /\ expect_more_msgs[c]
    /\ chan # <<>>
    /\ LET recv_buf == Head(chan).buf
           r == handle_resp_received(recv_buf)
           rsp == Extend(full_rsp[c], r[2])
       IN  /\ chan' = Tail(chan)
           /\ expect_more_msgs' = [expect_more_msgs EXCEPT ![c] = FALSE]
           /\ full_rsp' = [full_rsp EXCEPT ![c] = rsp]
           /\ g_srcs' = [g_srcs EXCEPT ![c] = @ \cup {Head(chan).of}]
           /\ g_nRecv' = [g_nRecv EXCEPT ![c] = @ + 1]
           /\ pc' = [pc EXCEPT ![c] = "unlock"]
           /\ result' = [result EXCEPT ![c] = Ok(rsp)]
           /\ g_cleanRun' = [g_cleanRun EXCEPT ![c] = ~g_anyFail]
    /\ UNCHANGED <<mainVars, mutex, nCalls, g_id, g_resp, g_failed, g_anyFail>>
    /\ UNCHANGED hwVars

\* One pass of the while loop with a successful recv: the frame at the head
\* of the channel is taken, split by handle_resp_received and appended; when
\* expect_more_msgs is cleared the loop ends and Ok(full_rsp) is returned.
ExecRecvOk(c) ==
    /\ Alive
    /\ pc[c] = "recv"
    /\ expect_more_msgs[c]
    /\ chan # <<>>
    /\ LET recv_buf == Head(chan).buf
           r == handle_resp_received(recv_buf)
           rsp == Extend(full_rsp[c], r[2])
       IN  /\ chan' = Tail(chan)
           /\ expect_more_msgs' = [expect_more_msgs EXCEPT ![c] = r[1]]
           /\ full_rsp' = [full_rsp EXCEPT ![c] = rsp]
           /\ g_srcs' = [g_srcs EXCEPT ![c] = @ \cup {Head(chan).of}]
           /\ g_nRecv' = [g_nRecv EXCEPT ![c] = @ + 1]
           /\ IF r[1]
              THEN UNCHANGED <<pc, result, g_cleanRun>>
              ELSE /\ pc' = [pc EXCEPT ![c] = "unlock"]
                   /\ result' = [result EXCEPT ![c] = Ok(rsp)]
                   /\ g_cleanRun' = [g_cleanRun EXCEPT ![c] = ~g_anyFail]
    /\ UNCHANGED <<mainVars, mutex, nCalls, g_id, g_resp, g_failed, g_anyFail>>
    /\ UNCHANGED hwVars

\* A recv failure that hands back what was reassembled so far.
RecvFailPartial(c) == Ok(full_rsp[c])

\* What execute returns when recv fails: map_err(..)? drops full_rsp.
RecvFailResult(c) == Err("TRANSACTION_FAILED")

\* A recv failure after which the loop tries the recv again.
ExecRecvFailRetry(c) ==
    /\ Alive
    /\ pc[c] = "recv"
    /\ expect_more_msgs[c]
    /\ ~g_failed[c]
    /\ g_failed' = [g_failed EXCEPT ![c] = TRUE]
    /\ g_anyFail' = TRUE
    /\ UNCHANGED <<mainVars, mutex, pc, chan, result, full_rsp,
                   expect_more_msgs, nCalls, g_id, g_resp, g_srcs, g_nRecv, g_cleanRun>>
    /\ UNCHANGED hwVars

\* self.0.recv(&mut recv_buf) failed: execute returns at once.  The frame at
\* the head of the channel, if any, may or may not have been taken by the
\* failed read; the frames behind it stay queued.
ExecRecvFail(c) ==
    /\ Alive
    /\ pc[c] = "recv"
    /\ expect_more_msgs[c]
    /\ \E lost \in BOOLEAN :
          chan' = IF lost /\ chan # <<>> THEN Tail(chan) ELSE chan
    /\ result' = [result EXCEPT ![c] = RecvFailResult(c)]
    /\ pc' = [pc EXCEPT ![c] = "unlock"]
    /\ g_failed' = [g_failed EXCEPT ![c] = TRUE]
    /\ g_anyFail' = TRUE
    /\ g_nRecv' = [g_nRecv EXCEPT ![c] = @ + 1]
    /\ UNCHANGED <<mainVars, mutex, full_rsp, expect_more_msgs, nCalls, g_id,
                   g_resp, g_srcs, g_cleanRun>>
    /\ UNCHANGED hwVars

HalNext ==
    \/ StartThreadPool
    \/ ConnectOk
    \/ ConnectFail
    \/ RegisterOk
    \/ RegisterFail
    \/ HalInfoCall
    \/ \E c \in FacadeSet : FacadeCall(c)
    \/ \E c \in Callers : ExecSendOk(c)
    \/ \E c \in Callers : ExecSendFail(c)
    \/ \E c \in Callers : ExecRecvOk(c)
    \/ \E c \in Callers : ExecRecvFail(c)
    \/ \E c \in Callers : Unlock(c)

\* --------------------------------------------------------------- hwcrypto

\* Calls the hwcrypto binder threads may serve in one run.
MaxHwCalls == 3

HwThreads == {"t1", "t2"}

\* IHwCryptoKeySymmetricOperations and IDmaEmittingOperation methods.
BeginOps == {"begin", "begin_aead", "begin_dma", "begin_dma_aead"}
DmaOps == {"update", "is_busy", "wait_for_completion", "finish", "abort"}

\* How a call ends: a binder::Result (Ok or Err) or a panic.
HwNoRet == [kind |-> "none", val |-> "none"]
HwOk(v) == [kind |-> "Ok", val |-> v]
HwErr(e) == [kind |-> "Err", val |-> e]
HwPanic == [kind |-> "Panic", val |-> "not implemented"]

\* What a new_operation does: the result and the sessions it creates.
Outcome(r, created) == [ret |-> r, created |-> created]

\* unimplemented!(..): the call panics, nothing is created.
Unimplemented == Outcome(HwPanic, <<>>)

\* A new_operation of a session module that builds its session: well-formed
\* arguments give a session in Active and its handle, others
\* InvalidParameters and no session.
NewSession(variant, valid) ==
    IF valid
    THEN Outcome(HwOk(Len(sessions) + 1),
                 <<[variant |-> variant, state |-> "Active"]>>)
    ELSE Outcome(HwErr("InvalidParameters"), <<>>)

SymmetricEmittingOperation_new_operation(valid) ==
    NewSession("emitting", valid)

SymmetricAeadOperation_new_operation(valid) ==
    NewSession("aead", valid)

SymmetricDmaAeadOperation_new_operation(valid) ==
    NewSession("dma_aead", valid)

\* SymmetricDmaEmittingOperation::new_operation(_key, _parameters,
\* _dma_buffers): the arguments are not looked at.
SymmetricDmaEmittingOperation_new_operation(valid) == Unimplemented

\* SymmetricDmaEmittingOperation is a unit struct: the handle records no
\* session state, and no work is ever outstanding on it.
DmaWorkOutstanding == FALSE

HwInit ==
    /\ hwAlive = TRUE
    /\ panicAborts \in BOOLEAN
    /\ sessions = <<>>
    /\ hwPc = [t \in HwThreads |-> "idle"]
    /\ hwOp = [t \in HwThreads |-> "none"]
    /\ hwValid = [t \in HwThreads |-> FALSE]
    /\ hwRet = [t \in HwThreads |-> HwNoRet]
    /\ nHwCalls = 0
    /\ g_terminated = FALSE
    /\ g_afterTerminal = [t \in HwThreads |-> FALSE]
    /\ g_abortDuring = [t \in HwThreads |-> FALSE]

\* The hwcrypto service, not started.
HwIdle ==
    /\ hwAlive = FALSE
    /\ panicAborts = TRUE
    /\ sessions = <<>>
    /\ hwPc = [t \in HwThreads |-> "idle"]
    /\ hwOp = [t \in HwThreads |-> "none"]
    /\ hwValid = [t \in HwThreads |-> FALSE]
    /\ hwRet = [t \in HwThreads |-> HwNoRet]
    /\ nHwCalls = 0
    /\ g_terminated = FALSE
    /\ g_afterTerminal = [t \in HwThreads |-> FALSE]
    /\ g_abortDuring = [t \in HwThreads |-> FALSE]

\* A binder thread receives a call: one of the begin variants with
\* well-formed or malformed arguments, or a method of a DMA operation handle.
HwInvoke(t) ==
    /\ hwAlive
    /\ hwPc[t] = "idle"
    /\ nHwCalls < MaxHwCalls
    /\ nHwCalls' = nHwCalls + 1
    /\ \E op \in BeginOps \cup DmaOps, valid \in BOOLEAN :
          /\ op \in DmaOps => valid
          /\ hwOp' = [hwOp EXCEPT ![t] = op]
          /\ hwValid' = [hwValid EXCEPT ![t] = valid]
          /\ g_afterTerminal' =
                [g_afterTerminal EXCEPT ![t] = op \in DmaOps /\ g_terminated]
    /\ hwPc' = [hwPc EXCEPT ![t] = "called"]
    /\ hwRet' = [hwRet EXCEPT ![t] = HwNoRet]
    /\ g_abortDuring' = [g_abortDuring EXCEPT ![t] = FALSE]
    /\ UNCHANGED <<hwAlive, panicAborts, sessions, g_terminated>>
    /\ UNCHANGED halVars

\* The call of thread t ends with outcome o.  A panic ends the process when
\* the build aborts on panic, and unwinds the call otherwise.
HwReturn(t, o) ==
    /\ hwRet' = [hwRet EXCEPT ![t] = o.ret]
    /\ sessions' = sessions \o o.created
    /\ hwPc' = [hwPc EXCEPT ![t] = "idle"]
    /\ hwAlive' = IF o.ret.kind = "Panic" THEN ~panicAborts ELSE hwAlive
    /\ UNCHANGED <<panicAborts, hwOp, hwValid, nHwCalls, g_afterTerminal>>
    /\ UNCHANGED halVars

Serving(t, op) == hwAlive /\ hwPc[t] = "called" /\ hwOp[t] = op

\* HwCryptoKeySymmetricOperations::begin
Begin(t) ==
    /\ Serving(t, "begin")
    /\ HwReturn(t, SymmetricEmittingOperation_new_operation(hwValid[t]))
    /\ UNCHANGED <<g_terminated, g_abortDuring>>

\* HwCryptoKeySymmetricOperations::begin_aead
BeginAead(t) ==
    /\ Serving(t, "begin_aead")
    /\ HwReturn(t, SymmetricAeadOperation_new_operation(hwValid[t]))
    /\ UNCHANGED <<g_terminated, g_abortDuring>>

\* HwCryptoKeySymmetricOperations::begin_dma
BeginDma(t) ==
    /\ Serving(t, "begin_dma")
    /\ HwReturn(t, SymmetricDmaEmittingOperation_new_operation(hwValid[t]))
    /\ UNCHANGED <<g_terminated, g_abortDuring>>

\* HwCryptoKeySymmetricOperations::begin_dma_aead
BeginDmaAead(t) ==
    /\ Serving(t, "begin_dma_aead")
    /\ HwReturn(t, SymmetricDmaAeadOperation_new_operation(hwValid[t]))
    /\ UNCHANGED <<g_terminated, g_abortDuring>>

\* SymmetricDmaEmittingOperation::update
Update(t) ==
    /\ Serving(t, "update")
    /\ HwReturn(t, Unimplemented)
    /\ UNCHANGED <<g_terminated, g_abortDuring>>

\* SymmetricDmaEmittingOperation::is_busy
IsBusy(t) ==
    /\ Serving(t, "is_busy")
    /\ HwReturn(t, Unimplemented)
    /\ UNCHANGED <<g_terminated, g_abortDuring>>

\* SymmetricDmaEmittingOperation::wait_for_completion
WaitForCompletion(t) ==
    /\ Serving(t, "wait_for_completion")
    /\ HwReturn(t, Unimplemented)
    /\ UNCHANGED <<g_terminated, g_abortDuring>>

\* SymmetricDmaEmittingOperation::finish
Finish(t) ==
    /\ Serving(t, "finish")
    /\ HwReturn(t, Unimplemented)
    /\ g_terminated' = TRUE
    /\ UNCHANGED g_abortDuring

\* SymmetricDmaEmittingOperation::abort
Abort(t) ==
    /\ Serving(t, "abort")
    /\ HwReturn(t, Unimplemented)
    /\ g_terminated' = TRUE
    /\ g_abortDuring' =
          [u \in HwThreads |->
              IF u # t /\ hwPc[u] = "called" /\ hwOp[u] = "wait_for_completion"
              THEN TRUE ELSE g_abortDuring[u]]

HwNext ==
    \/ \E t \in HwThreads : HwInvoke(t)
    \/ \E t \in HwThreads : Begin(t)
    \/ \E t \in HwThreads : BeginAead(t)
    \/ \E t \in HwThreads : BeginDma(t)
    \/ \E t \in HwThreads : BeginDmaAead(t)
    \/ \E t \in HwThreads : Update(t)
    \/ \E t \in HwThreads : IsBusy(t)
    \/ \E t \in HwThreads : WaitForCompletion(t)
    \/ \E t \in HwThreads : Finish(t)
    \/ \E t \in HwThreads : Abort(t)

Init == HalInit /\ HwIdle

Next == HalNext

Spec == Init /\ [][Next]_vars

\* Scheduling: a binder thread or main() that is inside execute keeps
\* running.  send returns; recv returns once a frame is queued or the
\* transport fails; the statement that called execute ends and drops the
\* MutexGuard.
Fairness ==
    \A c \in Callers :
        /\ WF_vars(ExecSendOk(c) \/ ExecSendFail(c))
        /\ WF_vars(ExecRecvOk(c) \/ ExecRecvFail(c))
        /\ WF_vars(Unlock(c))

SpecLive == Init /\ [][Next]_vars /\ Fairness

\* The hwcrypto service on its own.
InitHw == HalInit /\ HwInit

SpecHw == InitHw /\ [][HwNext]_vars

\* ------------------------------------------------------------ claims (HAL)

\* Callers inside TipcChannel::execute, from its send to its return.
InExecute(c) == pc[c] \in {"send", "recv", "unlock"}

\* C1: when no send or recv has failed on the channel, an execute call that
\* returns Ok returns exactly the concatenation, in order, of the payloads of
\* the fragments the TA answered its request with.
C1_ReassemblyExact ==
    \A c \in Callers :
        (result[c].kind = "Ok" /\ g_cleanRun[c])
            => result[c].rsp = Concat(g_resp[c])

\* C1 witness: a call has returned a response of several fragments with
\* different payloads, on a channel that never failed.
C1_Witness ==
    \E c \in Callers :
        /\ result[c].kind = "Ok"
        /\ g_cleanRun[c]
        /\ Len(g_resp[c]) >= 2
        /\ g_resp[c][1] # g_resp[c][2]

\* C2: at most one execute exchange is in flight: no two callers are inside
\* execute at once, and the caller inside it owns the mutex.
C2_OneExchangeInFlight ==
    \A c \in Callers :
        InExecute(c) =>
            /\ mutex = c
            /\ \A d \in Callers \ {c} : ~InExecute(d)

\* C2 witness: one caller is in the middle of a multi-fragment response while
\* main() and a registered facade with a call to serve are kept out.
C2_Witness ==
    \E c \in FacadeSet, d \in FacadeSet :
        /\ c # d
        /\ pc[c] = "recv"
        /\ full_rsp[c] # <<>>
        /\ d \in registered
        /\ pc[d] = "idle"
        /\ nCalls < MaxCalls
        /\ mainPc = "hal_info"

\* C3: an execute call in which the send or a recv failed returns the
\* TRANSACTION_FAILED error and none of the bytes it had received.
C3_AllOrNothing ==
    \A c \in Callers :
        (pc[c] = "unlock" /\ g_failed[c])
            => /\ result[c].kind = "Err"
               /\ result[c].code = "TRANSACTION_FAILED"
               /\ result[c].rsp = <<>>

\* C3 witness: a recv failed after fragments had already been received.
C3_Witness ==
    \E c \in Callers :
        /\ pc[c] = "unlock"
        /\ g_failed[c]
        /\ full_rsp[c] # <<>>

\* C4 (as claimed): every successful execute returns only fragments the TA
\* produced in answer to that call's own request.
C4_ResponsePairedWithRequest ==
    \A c \in Callers :
        result[c].kind = "Ok" => g_srcs[c] \subseteq {g_id[c]}

\* C5 (as claimed): a request is sent only when no fragment of an earlier
\* response is still queued on the channel.
C5_SendOnlyWhenDrained ==
    [][\A c \in Callers :
          (pc[c] = "send" /\ pc'[c] = "recv") => chan = <<>>]_vars

\* ------------------------------------------------------- claims (hwcrypto)

\* The call thread t served last has ended, and it was a call of op.
Ended(t, ops) == hwRet[t].kind # "none" /\ hwOp[t] \in ops

\* C6 (as claimed): every begin variant called with well-formed arguments
\* returns the handle of a session that is in state Active.
C6_BeginYieldsActive ==
    \A t \in HwThreads :
        (Ended(t, BeginOps) /\ hwValid[t])
            => /\ hwRet[t].kind = "Ok"
               /\ hwRet[t].val \in 1..Len(sessions)
               /\ sessions[hwRet[t].val].state = "Active"

\* C7 (as claimed): once finish or abort has been called on a session, every
\* later update, is_busy, wait_for_completion or finish on the handle returns
\* the IllegalStateTransition error.
C7_TerminalRejects ==
    \A t \in HwThreads :
        (Ended(t, DmaOps \ {"abort"}) /\ g_afterTerminal[t])
            => hwRet[t] = HwErr("IllegalStateTransition")

\* C8 (as claimed): a call of a capability that is not available in this
\* build returns an Unimplemented error result to its caller, and the
\* service keeps running.
C8_UnimplementedReported ==
    \A t \in HwThreads :
        Ended(t, {"begin_dma"} \cup DmaOps)
            => /\ hwRet[t] = HwErr("Unimplemented")
               /\ hwAlive

\* C9 (as claimed): a wait_for_completion that was pending when another
\* caller's abort ran on the session returns with an aborted result.
C9_AbortEndsWait ==
    \A t \in HwThreads :
        (Ended(t, {"wait_for_completion"}) /\ g_abortDuring[t])
            => /\ hwRet[t].kind \in {"Ok", "Err"}
               /\ hwRet[t].val = "Aborted"

\* C10 (as claimed): on a session that is not terminal, is_busy returns a
\* boolean, and returns true if and only if the session is Busy.
C10_IsBusyIffBusy ==
    \A t \in HwThreads :
        (Ended(t, {"is_busy"}) /\ ~g_afterTerminal[t])
            => /\ hwRet[t].kind = "Ok"
               /\ hwRet[t].val = DmaWorkOutstanding

\* C11 (as claimed): a begin variant called with malformed or mismatched
\* arguments returns InvalidParameters, creates no session and performs no
\* exchange on the channel.
C11_InvalidRejected ==
    [][\A t \in HwThreads :
          (Serving(t, hwOp[t]) /\ hwOp[t] \in BeginOps /\ ~hwValid[t]
              /\ hwPc'[t] = "idle")
              => /\ hwRet'[t] = HwErr("InvalidParameters")
                 /\ sessions' = sessions
                 /\ chan' = chan]_vars

\* ------------------------------------------------- claims (HAL, continued)

\* A send or recv of caller c fails in this step.
TransportFails(c) == g_failed'[c] /\ ~g_failed[c]

\* C13: a transport failure ends the process exactly when it is the failure
\* of the startup connect: a failed connect panics with no service
\* registered, a send or recv failure inside execute (that of send_hal_info
\* included) is returned as an error to a process that keeps running, and
\* main() goes on to join the thread pool.
C13_OnlyConnectFailureIsFatal ==
    [][/\ (mainPc = "connect" /\ mainPc' # "connect" /\ ~connected')
            => (mainPc' = "panicked" /\ registered' = {})
       /\ \A c \in Callers :
            TransportFails(c)
                => /\ Alive'
                   /\ mainPc' = mainPc
                   /\ result'[c].kind = "Err"
       /\ (pc["main"] = "unlock" /\ pc'["main"] = "idle") => mainPc' = "join"
      ]_vars

\* C13 witness: the send_hal_info exchange failed after fragments had been
\* received, the error is back in main() and the process runs.
C13_Witness ==
    /\ pc["main"] = "unlock"
    /\ g_failed["main"]
    /\ full_rsp["main"] # <<>>
    /\ result["main"].kind = "Err"
    /\ Alive

\* C14: an execute call attempts one send; a failed send or recv ends the
\* call at once with the error, and a call that has ended performs no
\* further send or recv: the channel is left as it is.
C14_NoRetry ==
    [][\A c \in Callers :
          /\ pc[c] \in {"recv", "unlock"} => pc'[c] # "send"
          /\ (pc[c] = "send" /\ pc'[c] # "send")
                => (pc'[c] = "recv" \/ TransportFails(c) \/ ~Alive')
          /\ TransportFails(c)
                => (pc'[c] = "unlock" /\ result'[c].kind = "Err")
          /\ (pc[c] = "send" /\ TransportFails(c)) => chan' = chan
          /\ (pc[c] = "unlock" /\ Alive')
                => (chan' = chan /\ pc'[c] \in {"unlock", "idle"})
      ]_vars

\* C14 witness: a recv failed in the middle of a response and the call has
\* ended with frames still queued that it did not try to receive.
C14_Witness ==
    \E c \in Callers :
        /\ pc[c] = "unlock"
        /\ g_failed[c]
        /\ full_rsp[c] # <<>>
        /\ chan # <<>>
        /\ result[c].kind = "Err"

\* C15: after a successful send execute makes at least one recv; it goes on
\* receiving while the frame just received has the continuation indicator
\* set and returns Ok exactly on the first frame that clears it, taking that
\* frame and none behind it; an n-fragment response on a channel without
\* failures costs exactly n recv calls; the loop ends, by the final frame
\* or by a recv failure.
C15_RecvUntilFinalFrame ==
    /\ [][\A c \in Callers :
            /\ (pc[c] = "send" /\ pc'[c] = "unlock") => TransportFails(c)
            /\ (pc[c] = "recv" /\ pc'[c] = "unlock")
                  => \/ TransportFails(c)
                     \/ /\ chan # <<>>
                        /\ ~handle_resp_received(Head(chan).buf)[1]
                        /\ chan' = Tail(chan)
                        /\ result'[c].kind = "Ok"
            /\ (/\ pc[c] = "recv" /\ chan # <<>> /\ chan' = Tail(chan)
                /\ handle_resp_received(Head(chan).buf)[1]
                /\ ~TransportFails(c) /\ Alive')
                  => (pc'[c] = "recv" /\ result'[c] = NoResult)
         ]_vars
    /\ [](\A c \in Callers :
            /\ pc[c] = "recv" => (chan # <<>> /\ expect_more_msgs[c])
            /\ result[c].kind = "Ok" => g_nRecv[c] >= 1
            /\ (result[c].kind = "Ok" /\ g_cleanRun[c])
                  => (g_nRecv[c] = Len(g_resp[c]) /\ chan = <<>>))
    /\ \A c \in Callers : (pc[c] = "recv") ~> (pc[c] # "recv")

\* A two-fragment response was received in two recv calls.
C15_Witness ==
    \E c \in Callers :
        /\ result[c].kind = "Ok"
        /\ g_cleanRun[c]
        /\ Len(g_resp[c]) = MaxFrags
        /\ g_nRecv[c] = MaxFrags

\* C16: the caller owns the mutex from the start of its exchange until
\* execute has returned, and gives it up on return whether the result is a
\* response or a transport error; the mutex never stays held, and whenever
\* it is free a registered caller that wants the channel can take it.
C16_LockHeldThenReleased ==
    /\ [](\A c \in Callers :
            /\ InExecute(c) => mutex = c
            /\ pc[c] = "idle" => mutex # c)
    /\ [][\A c \in Callers :
            (pc[c] = "unlock" /\ pc'[c] = "idle") => mutex' = NoOne]_vars
    /\ [](\A c \in FacadeSet :
            (/\ Alive /\ mutex = NoOne /\ c \in registered
             /\ pc[c] = "idle" /\ nCalls < MaxCalls) => ENABLED FacadeCall(c))
    /\ (mutex # NoOne) ~> (mutex = NoOne)

\* A caller owns the channel after an earlier exchange ended in a
\* transport error.
C16_Witness ==
    \E c \in FacadeSet :
        /\ g_anyFail
        /\ mutex = c
        /\ pc[c] = "send"
        /\ ~g_failed[c]

\* C17: the process connects to the TA once, at startup; no step connects
\* again or replaces the connection a holder refers to; main() and every
\* registered facade refer to that one connection, before and after any
\* failed or successful execute.
C17_OneChannelForAll ==
    /\ [](/\ connId <= 1
          /\ connected <=> connId = 1
          /\ connected => chanRef["main"] = 1
          /\ \A c \in registered : chanRef[c] = 1
          /\ \A c \in Callers : InExecute(c) => chanRef[c] = 1)
    /\ [][/\ connId' # connId => (mainPc = "connect" /\ connId = 0)
          /\ \A c \in Callers : chanRef[c] # 0 => chanRef'[c] = chanRef[c]
          /\ connected => mainPc' \notin {"start", "connect"}]_vars

\* With all four facades registered, a facade starts an exchange on the
\* connection after an earlier exchange failed.
C17_Witness ==
    /\ registered = FacadeSet
    /\ g_anyFail
    /\ \E c \in FacadeSet :
          /\ pc[c] = "send"
          /\ chanRef[c] = chanRef["main"]
          /\ chanRef[c] = 1

\* C18: main() starts the HAL-info exchange only after the thread pool is
\* started and all four services are registered, so facade calls may be in
\* progress or arrive while it runs; it owns the same mutex for its whole
\* exchange, so no facade is inside execute while main() is and the other
\* way round, and every step that adds or takes frames belongs to the one
\* caller that owns the mutex.
C18_HalInfoSerialized ==
    /\ [](/\ mainPc \in {"hal_info", "hal_info_sent", "join"}
                => registered = FacadeSet
          /\ InExecute("main")
                => /\ mainPc = "hal_info_sent"
                   /\ mutex = "main"
                   /\ \A d \in FacadeSet : ~InExecute(d)
          /\ \A d \in FacadeSet :
                InExecute(d) => (mutex = d /\ ~InExecute("main")))
    /\ [][(chan' # chan /\ Alive')
            => /\ mutex \in Callers
               /\ pc[mutex] \in {"send", "recv"}
               /\ \A d \in Callers \ {mutex} :
                     pc'[d] = pc[d] /\ full_rsp'[d] = full_rsp[d]]_vars

\* A facade exchange is in its recv loop while main() has reached the
\* HAL-info call and waits for the mutex.
C18_Witness ==
    /\ mainPc = "hal_info"
    /\ pc["main"] = "idle"
    /\ \E d \in FacadeSet :
          /\ pc[d] = "recv"
          /\ mutex = d
          /\ full_rsp[d] # <<>>

\* C19: a service is registered only once the connection to the TA exists:
\* every registration step happens with the channel connected, every caller
\* inside execute holds a reference to a connected channel, and a run whose
\* connect failed has no service registered.
C19_RegisterOnlyWhenConnected ==
    /\ [](/\ registered # {} => connected
          /\ \A c \in Callers : InExecute(c) => (connected /\ chanRef[c] # 0)
          /\ ~connected => (registered = {} /\ mainPc \in {"start", "connect", "panicked"}))
    /\ [][/\ registered' # registered => (connected /\ mainPc = "register")
          /\ (mainPc = "connect" /\ mainPc' = "register") => connected'
          /\ (mainPc = "connect" /\ mainPc' = "panicked")
                => (~connected' /\ registered' = {})]_vars

\* A facade registered after the connect is already inside execute while
\* main() is still registering the remaining services.
C19_Witness ==
    /\ mainPc = "register"
    /\ connected
    /\ \E c \in registered : pc[c] = "send" /\ chanRef[c] = connId

====
